---------------------------- MODULE Spec2Model ----------------------------
(***************************************************************************)
(* Model of the multi-source fallback core of the TRON MCP server:         *)
(*   - TronMcpServer.checkNodeAvailability / executeWithFallback           *)
(*     (src/src/index.js), the cached availability flag nodeAvailable;     *)
(*   - the tools routed through executeWithFallback (contractCall,         *)
(*     sendTrx, getChainParameters, getEnergyPrices,                       *)
(*     estimateContractEnergy / estimateEnergy);                           *)
(*   - AccountModule.getBalance (its own nested fallback);                 *)
(*   - AccountModule.sendTrx and the signing key of the shared tronWeb;    *)
(*   - TronScanAPI.getApiKey / makeRequest (rotating explorer API keys);   *)
(*   - the static heuristic getFallbackEnergyEstimate.                     *)
(*                                                                         *)
(* Tool requests are handled concurrently by the host runtime: each        *)
(* request is a chain of asynchronous steps that suspends at every backend *)
(* request.  A request slot of the model is one such in-flight request; a  *)
(* step of the model is the code that runs between two suspension points.  *)
(* Backends are the environment: each request either returns or throws.    *)
(*                                                                         *)
(* Strings whose contents the code inspects (function names) are           *)
(* sequences of one-character strings; error messages are sequences of     *)
(* tokens, concatenation is \o and "contains" is token membership.         *)
(***************************************************************************)
EXTENDS Integers, Sequences, FiniteSets, TLC

(***************************************************************************)
(* Bounds of the model.                                                    *)
(***************************************************************************)
MaxEvals == 3          \* heuristic evaluations logged per behaviour
MaxExtraParams == 3    \* longest parameter list given to the heuristic
MaxSun == 2500000      \* largest sampled raw balance (in SUN)
MaxKeys == 3           \* most explorer API keys configured in API_KEYS
MaxRequests == 6       \* explorer requests issued per behaviour

(***************************************************************************)
(* State.                                                                  *)
(***************************************************************************)
VARIABLES
    nodeAvailable,      \* TronMcpServer.nodeAvailable: NULL, T or F
    energyEstimator,    \* TronMcpServer.energyEstimator: NULL until the timer fires
    networkParameters,  \* NetworkMonitor.networkData.parameters: NULL or loaded
    calls,              \* the request in each slot
    primaryFailed,      \* ghost: some primary thunk has thrown in executeWithFallback
    hInput,             \* input of the heuristic evaluations (SpecHeuristic)
    hLog,               \* values the heuristic returned so far (SpecHeuristic)
    PRIVATE_KEY,        \* process.env.PRIVATE_KEY: NULL when not configured
    defaultPrivateKey,  \* tronWeb.defaultPrivateKey: NULL when no key is set
    tronScanAPI,        \* TronScanAPI: apiKeys and currentKeyIndex
    keyRequests,        \* explorer requests issued through TronScanAPI.makeRequest
    probes,             \* ghost: probes checkNodeAvailability has issued
    networkMonitor,     \* NetworkMonitor: phase of initialize(), updateInterval
    cacheFile,          \* the file of one cache key of TronScanAPI (SpecCache)
    lookups,            \* the getCachedOrFetch call in each slot (SpecCache)
    fetchCount          \* ghost: fetches answered so far, numbers the data (SpecCache)

\* the signing configuration of the shared tronWeb instance
signing == <<PRIVATE_KEY, defaultPrivateKey>>

\* the explorer client and the requests it issued
explorerKeys == <<tronScanAPI, keyRequests>>

\* the file cache of the explorer client and the lookups in flight
explorerCache == <<cacheFile, lookups, fetchCount>>

vars == <<nodeAvailable, energyEstimator, networkParameters, calls, primaryFailed,
          hInput, hLog, signing, explorerKeys, probes, networkMonitor, explorerCache>>

(***************************************************************************)
(* The request slots (requests in flight at the same time).                *)
(***************************************************************************)
Procs == {"r1", "r2"}

NULL == "null"

(***************************************************************************)
(* Character strings.                                                      *)
(***************************************************************************)
UpperChars == <<"A","B","C","D","E","F","G","H","I","J","K","L","M",
                "N","O","P","Q","R","S","T","U","V","W","X","Y","Z">>
LowerChars == <<"a","b","c","d","e","f","g","h","i","j","k","l","m",
                "n","o","p","q","r","s","t","u","v","w","x","y","z">>

\* String.prototype.toLowerCase, one character
toLowerCaseChar(c) ==
    IF \E i \in 1..26 : UpperChars[i] = c
    THEN LowerChars[CHOOSE i \in 1..26 : UpperChars[i] = c]
    ELSE c

\* String.prototype.toLowerCase
toLowerCase(s) == [i \in 1..Len(s) |-> toLowerCaseChar(s[i])]

\* faulty variant: only a match at the start of the string counts
includesAtStart(s, sub) ==
    Len(sub) <= Len(s) /\ SubSeq(s, 1, Len(sub)) = sub

\* String.prototype.includes
includes(s, sub) ==
    \E i \in 0..(Len(s) - Len(sub)) : SubSeq(s, i + 1, i + Len(sub)) = sub

s_transfer     == <<"t","r","a","n","s","f","e","r">>
s_Transfer     == <<"T","r","a","n","s","f","e","r">>
s_approve      == <<"a","p","p","r","o","v","e">>
s_transferfrom == <<"t","r","a","n","s","f","e","r","f","r","o","m">>
s_transferFrom == <<"t","r","a","n","s","f","e","r","F","r","o","m">>
s_balanceof    == <<"b","a","l","a","n","c","e","o","f">>
s_balanceOf    == <<"b","a","l","a","n","c","e","O","f">>
s_send         == <<"s","e","n","d">>
s_allowance    == <<"a","l","l","o","w","a","n","c","e">>
s_swap         == <<"s","w","a","p">>
s_exchange     == <<"e","x","c","h","a","n","g","e">>
s_mint         == <<"m","i","n","t">>
s_burn         == <<"b","u","r","n">>
s_view         == <<"v","i","e","w">>
s_get          == <<"g","e","t">>
s_balance      == <<"b","a","l","a","n","c","e">>
s_sendToken    == <<"s","e","n","d","T","o","k","e","n">>
s_swapExact    == <<"s","w","a","p","E","x","a","c","t">>
s_getOwner     == <<"g","e","t","O","w","n","e","r">>
s_stake        == <<"s","t","a","k","e">>
s_mintTransfer == <<"m","i","n","t","T","r","a","n","s","f","e","r">>
s_getApproved  == <<"g","e","t","A","p","p","r","o","v","e","d">>

(***************************************************************************)
(* Addresses the code names.                                               *)
(***************************************************************************)
USDT_CONTRACT        == "TR7NHqjeKQxGTCi8q8ZY4pL8otSzgjLj6t"
OTHER_CONTRACT       == "TOtherContract000000000000000000001"
NEW_ADDRESS          == "TSLbRevWFn3hktZmfDrzRbDLfEA6RQjNwK"
ADDRESS_WITH_USDT    == "TAHT3rrriD23a6AXmaM2YJRRvTYusKGVwD"
ADDRESS_WITHOUT_USDT == "TZ4UXDV5ZhNW7fb2AMSbgfAEZ7hWsnYS2g"
USER_ADDRESS         == "TUserRecipient00000000000000000001"
NOT_AN_ADDRESS       == "recipient"
INVALID_CONTRACT     == "not-a-contract"
AMOUNT               == "1000000"

\* typeof a === 'string' && a.startsWith('T') && a.length === 34
isUserAddressProvided(a) ==
    a \in {USDT_CONTRACT, NEW_ADDRESS, ADDRESS_WITH_USDT, ADDRESS_WITHOUT_USDT,
           USER_ADDRESS}

\* tronWeb.isAddress(a)
isAddress(a) ==
    a \in {USDT_CONTRACT, OTHER_CONTRACT, NEW_ADDRESS, ADDRESS_WITH_USDT,
           ADDRESS_WITHOUT_USDT, USER_ADDRESS}

(***************************************************************************)
(* Signing keys.                                                           *)
(***************************************************************************)
ENV_KEY    == "key of PRIVATE_KEY"
CALLER_KEY == "key of a send_trx caller"
OTHER_CALLER_KEY == "key of another send_trx caller"

(***************************************************************************)
(* The static heuristic of the server (gateway and explorer paths).        *)
(* toAddress is NULL when the caller passes none.                          *)
(***************************************************************************)

\* faulty variant: the estimate grows with the number of evaluations made so far
getFallbackEnergyEstimateCounting(functionName, parameters, contractAddress, toAddress) ==
    20000 + ((Len(parameters) + Len(hLog)) * 5000)

getFallbackEnergyEstimate(functionName, parameters, contractAddress, toAddress) ==
    LET functionLower == toLowerCase(functionName) IN
    IF contractAddress = USDT_CONTRACT /\ functionLower = s_transfer THEN
        IF toAddress # NULL /\ toAddress = NEW_ADDRESS THEN 28000
        ELSE IF toAddress # NULL /\ toAddress = ADDRESS_WITH_USDT THEN 13940
        ELSE 13940
    ELSE IF contractAddress = USDT_CONTRACT /\ functionLower = s_approve THEN 13180
    ELSE IF contractAddress = USDT_CONTRACT /\ functionLower = s_transferfrom THEN 18190
    ELSE IF contractAddress = USDT_CONTRACT /\ functionLower = s_balanceof THEN 680
    ELSE IF includes(functionLower, s_transfer) \/ includes(functionLower, s_send) THEN 14010
    ELSE IF includes(functionLower, s_approve) \/ includes(functionLower, s_allowance) THEN 10000
    ELSE IF includes(functionLower, s_swap) \/ includes(functionLower, s_exchange) THEN 50000
    ELSE IF includes(functionLower, s_mint) \/ includes(functionLower, s_burn) THEN 30000
    ELSE IF includes(functionLower, s_view) \/ includes(functionLower, s_get)
            \/ includes(functionLower, s_balance) THEN 1000
    ELSE 20000 + (Len(parameters) * 5000)

(***************************************************************************)
(* The static heuristic of EnergyEstimator (primary path).                 *)
(***************************************************************************)
EstimatorFallbackEnergyEstimate(functionName, parameters, contractAddress) ==
    LET functionLower == toLowerCase(functionName) IN
    IF contractAddress = USDT_CONTRACT /\ functionLower = s_transfer THEN 13940
    ELSE IF contractAddress = USDT_CONTRACT /\ functionLower = s_approve THEN 13180
    ELSE IF contractAddress = USDT_CONTRACT /\ functionLower = s_transferfrom THEN 18190
    ELSE IF contractAddress = USDT_CONTRACT /\ functionLower = s_balanceof THEN 680
    ELSE IF includes(functionLower, s_transfer) \/ includes(functionLower, s_send) THEN
        IF Len(parameters) > 2 THEN 31990 ELSE 14010
    ELSE IF includes(functionLower, s_approve) \/ includes(functionLower, s_allowance) THEN 10000
    ELSE IF includes(functionLower, s_swap) \/ includes(functionLower, s_exchange) THEN 50000
    ELSE IF includes(functionLower, s_mint) \/ includes(functionLower, s_burn) THEN 30000
    ELSE IF includes(functionLower, s_view) \/ includes(functionLower, s_get)
            \/ includes(functionLower, s_balance) THEN 1000
    ELSE 20000 + (Len(parameters) * 5000)


(***************************************************************************)
(* Backend candidates and their source tags.                               *)
(***************************************************************************)
Candidates == {"tronweb", "trongrid", "tronscan"}


\* faulty variant: the gateway result is tagged as the explorer's
SourceTagGatewayMislabelled(cand) ==
    CASE cand = "tronweb"  -> "tronweb_node"
      [] cand = "trongrid" -> "tronscan_api"
      [] cand = "tronscan" -> "tronscan_api"

\* the tag executeWithFallback spreads over the result of a candidate
SourceTag(cand) ==
    CASE cand = "tronweb"  -> "tronweb_node"
      [] cand = "trongrid" -> "trongrid_api"
      [] cand = "tronscan" -> "tronscan_api"

\* the label executeWithFallback puts in front of a recorded failure
SourceLabel(cand) ==
    CASE cand = "tronweb"  -> "TronWeb:"
      [] cand = "trongrid" -> "TronGrid:"
      [] cand = "tronscan" -> "TronScan:"

(***************************************************************************)
(* Tools.  "direct" is a call of executeWithFallback with an arbitrary     *)
(* candidate map (AccountModule receives the bound function and may pass   *)
(* any map); the named tools always pass all three candidates.             *)
(***************************************************************************)
RouterTools == {"contractCall", "sendTrx", "getChainParameters", "getEnergyPrices",
                "estimateContractEnergy", "estimateEnergy", "direct"}
EstimationTools == {"estimateContractEnergy", "estimateEnergy"}
Tools == RouterTools \cup {"getBalance"}

\* the operationName string each tool passes to executeWithFallback
OperationName(tool) ==
    IF tool \in EstimationTools THEN "estimateContractEnergy" ELSE tool

CandidateMaps == {Candidates, {"tronweb", "trongrid"}, {"trongrid", "tronscan"},
                  {"trongrid"}, {"tronweb", "tronscan"}}

(***************************************************************************)
(* Arguments of an estimation request.                                     *)
(***************************************************************************)
NoArgs == [contractAddress |-> NULL, functionName |-> <<>>, parameters |-> <<>>,
           privateKey |-> NULL]

EstimationArgs ==
    [contractAddress : {USDT_CONTRACT, OTHER_CONTRACT, INVALID_CONTRACT},
     functionName    : {s_transfer, s_stake},
     parameters      : {<<>>, <<USER_ADDRESS, AMOUNT>>, <<NOT_AN_ADDRESS, AMOUNT>>},
     privateKey      : {NULL}]

\* send_trx with and without the optional privateKey argument
SendArgs == {[NoArgs EXCEPT !.privateKey = k] : k \in {NULL, CALLER_KEY}}

(***************************************************************************)
(* Results.  A body is what a candidate thunk (or a tool) returns; an      *)
(* entry is one energy figure of an estimation, with the ghost field       *)
(* origin telling whether the figure is a backend's answer ("live") or a   *)
(* constant of the code ("static").                                        *)
(***************************************************************************)
ZeroTrx == [whole |-> 0, micro |-> 0]

\* payload tells what the backend's response body was: "data", or "error"
\* when a response with a success status carried the backend's own error
\* object (ghost)
Body(kind, source, entries) ==
    [kind |-> kind, source |-> source, entries |-> entries,
     balance |-> ZeroTrx, balanceInSun |-> 0, reported |-> 0, payload |-> "data"]

\* the result a thunk builds from a response that carried an error object
ErrorPayload(kind) == [Body(kind, NULL, {}) EXCEPT !.payload = "error"]

NoBody == Body("none", NULL, {})

Entry(name, value, origin, method, accuracy) ==
    [name |-> name, value |-> value, origin |-> origin,
     method |-> method, accuracy |-> accuracy]

Returned(body) == [ok |-> TRUE, msg |-> "", body |-> body]
Thrown(msg)    == [ok |-> FALSE, msg |-> msg, body |-> NoBody]

(***************************************************************************)
(* Energy estimation thunks.                                               *)
(***************************************************************************)
MaxUpdates == 3         \* updateNetworkData runs of the network monitor
MaxFetches == 2         \* answers of the fetch function of one cache key
SampleEnergy == 31895   \* an energy figure a backend reports

\* what a triggerconstantcontract request can do
ApiResponses == {"throw", "nofield", "zero", "value"}

\* apiResult.energy_used || 0
energy_used(r) == IF r = "value" THEN SampleEnergy ELSE 0

\* the recipient the gateway candidate hands to the heuristic
displayToAddress(args) ==
    IF args.contractAddress = USDT_CONTRACT /\ args.functionName = s_transfer
    THEN NEW_ADDRESS
    ELSE IF Len(args.parameters) > 0 THEN args.parameters[1] ELSE NULL

\* the recipient the explorer candidate hands to the heuristic
displayToAddressTronscan(args) ==
    IF args.contractAddress = USDT_CONTRACT /\ args.functionName = s_transfer
    THEN ADDRESS_WITH_USDT
    ELSE IF Len(args.parameters) > 0 THEN args.parameters[1] ELSE NULL

\* the two-request estimate for a USDT transfer (with / without balance)
dualEstimate(rWith, rWithout, method) ==
    { IF rWith # "throw"
      THEN Entry("energy_with_usdt", energy_used(rWith), "live", method, "high")
      ELSE Entry("energy_with_usdt", 64285, "static", method, "high"),
      IF rWithout # "throw"
      THEN Entry("energy_without_usdt", energy_used(rWithout), "live", method, "high")
      ELSE Entry("energy_without_usdt", 130285, "static", method, "high") }


\* faulty variant: the catch branch returns a result without an energy figure
trongridEstimateCatchNoFigure(args) == {}

\* the catch (apiError) branch of the gateway candidate
trongridEstimateCatch(args) ==
    { Entry("energy",
            getFallbackEnergyEstimate(args.functionName, args.parameters,
                                      args.contractAddress, displayToAddress(args)),
            "static", "predefined", "medium") }

\* the gateway candidate of estimateContractEnergy; r1, r2, r3 are the
\* outcomes of the requests it issues, in order
trongridEstimate(args, r1, r2, r3) ==
    IF /\ args.contractAddress = USDT_CONTRACT
       /\ args.functionName = s_transfer
       /\ Len(args.parameters) = 2
    THEN IF isUserAddressProvided(args.parameters[1])
         THEN IF r1 # "throw"
              THEN Returned(Body("estimate", NULL,
                     {Entry("energy", energy_used(r1), "live",
                            "triggerconstantcontract", "high")}))
              ELSE Returned(Body("estimate", NULL,
                     dualEstimate(r2, r3, "triggerconstantcontract_dual_fallback")))
         ELSE Returned(Body("estimate", NULL,
                     dualEstimate(r1, r2, "triggerconstantcontract_dual")))
    ELSE IF r1 = "throw"
         THEN Returned(Body("estimate", NULL, trongridEstimateCatch(args)))
         ELSE IF energy_used(r1) > 0
              THEN Returned(Body("estimate", NULL,
                     {Entry("energy", energy_used(r1), "live",
                            "triggerconstantcontract", "high")}))
              ELSE Returned(Body("estimate", NULL,
                     {Entry("energy",
                            getFallbackEnergyEstimate(args.functionName, args.parameters,
                                args.contractAddress, displayToAddress(args)),
                            "static", "triggerconstantcontract", "medium")}))

\* the explorer candidate of estimateContractEnergy
tronscanEstimate(args) ==
    Returned(Body("estimate", NULL,
        { Entry("energy",
                getFallbackEnergyEstimate(args.functionName, args.parameters,
                    args.contractAddress, displayToAddressTronscan(args)),
                "static", "predefined", "medium") }))

LiveMethods == {"triggerConstantContract", "estimateEnergy", "rpcCall", "historical"}

\* EnergyEstimator.performEnergyEstimation: the methods in live answered
performEnergyEstimation(args, live) ==
    { Entry(m, SampleEnergy, "live", m,
            CASE m = "triggerConstantContract" -> "high"
              [] m = "estimateEnergy" ->
                   IF args.contractAddress = USDT_CONTRACT /\ args.functionName = s_transfer
                   THEN "high" ELSE "medium"
              [] m = "rpcCall" -> "high"
              [] m = "historical" -> "medium") : m \in live }
    \cup
    { Entry("fallback",
            EstimatorFallbackEnergyEstimate(args.functionName, args.parameters,
                                            args.contractAddress),
            "static", "fallback", "low") }


T == "true"
F == "false"

NoResult == [status |-> "none", body |-> NoBody, message |-> <<>>]

IdleCall ==
    [pc |-> "idle", tool |-> NULL, operation |-> {}, args |-> NoArgs,
     available |-> NULL, sources |-> <<>>, invoked |-> <<>>, threw |-> {},
     latched |-> FALSE, thunkSource |-> NULL, result |-> NoResult,
     response |-> NoResult, signed |-> NULL, signers |-> {}, broadcasts |-> 0]

(***************************************************************************)
(* What a candidate thunk of a tool can do when it is invoked.             *)
(***************************************************************************)
BackendError(cand) ==
    CASE cand = "tronweb"  -> "node request failed"
      [] cand = "trongrid" -> "TronGrid API call failed"
      [] cand = "tronscan" -> "TronScan API call failed"

ThunkOutcomes(tool, cand, args) ==
    IF tool \in EstimationTools THEN
        CASE cand = "tronweb" ->
               IF energyEstimator = NULL
               THEN {Thrown("Energy estimator not initialized")}
               ELSE IF ~isAddress(args.contractAddress)
               THEN {Thrown("Energy estimation failed: Invalid contract address")}
               ELSE {Thrown("Energy estimation failed")} \cup
                    {Returned(Body("estimate", NULL, performEnergyEstimation(args, live)))
                        : live \in SUBSET LiveMethods}
          [] cand = "trongrid" ->
               {trongridEstimate(args, r1, r2, r3)
                    : r1 \in ApiResponses, r2 \in ApiResponses, r3 \in ApiResponses}
          [] cand = "tronscan" -> {tronscanEstimate(args)}
    ELSE IF tool \in {"sendTrx", "contractCall"} /\ cand = "tronscan" THEN
        {Thrown("TronScan API does not support this operation - read-only API")}
    ELSE IF tool = "sendTrx" /\ cand = "trongrid" THEN
        \* broadcasttransaction: accepted, rejected with an error body, or failed
        {Returned(Body("data", NULL, {})), Returned(ErrorPayload("data")),
         Thrown(BackendError(cand))}
    ELSE IF tool = "getEnergyPrices" /\ cand \in {"tronweb", "trongrid"} THEN
        {Returned(Body("data", "chain_parameters", {})), Thrown(BackendError(cand))}
    ELSE
        {Returned(Body("data", NULL, {})), Thrown(BackendError(cand))}

(***************************************************************************)
(* Tool handlers around executeWithFallback.                               *)
(***************************************************************************)

\* faulty variant: getChainParameters swallows the router's error as well
SubstitutesStaticChainParameters(tool) ==
    tool \in {"getEnergyPrices", "getChainParameters"}

\* the tools whose handler swallows the router's error and returns constants
SubstitutesStatic(tool) == tool = "getEnergyPrices"

ToolPrefix(tool) ==
    CASE tool = "contractCall"           -> <<"Failed to call contract:">>
      [] tool = "sendTrx"                -> <<"Failed to send TRX:">>
      [] tool = "getChainParameters"     -> <<"Failed to get chain parameters:">>
      [] tool = "estimateContractEnergy" -> <<"Failed to estimate contract energy:">>
      [] tool = "estimateEnergy"         -> <<"Failed to estimate energy:",
                                              "Failed to estimate contract energy:">>
      [] OTHER                           -> <<>>

ToolResponse(tool, result) ==
    IF result.status = "error"
    THEN IF SubstitutesStatic(tool)
         THEN [status |-> "ok", body |-> Body("static", "fallback_static_values", {}),
               message |-> <<>>]
         ELSE [result EXCEPT !.message = ToolPrefix(tool) \o @]
    ELSE result

(***************************************************************************)
(* executeWithFallback, between suspension points.                         *)
(***************************************************************************)
\* the thunk of cand starts.  sendTrx's primary thunk calls
\* trx.sendTransaction(to, amount), which takes tronWeb.defaultPrivateKey as
\* its signing key when it is called; signed is the key the transaction of
\* the running thunk is signed with (NULL: none signed yet)
Invoke(c, cand) ==
    [c EXCEPT !.pc = cand, !.invoked = Append(@, cand),
              !.signed = IF c.tool = "sendTrx" /\ cand = "tronweb"
                         THEN defaultPrivateKey ELSE NULL]

\* whether the thunk that settles with out has put its transaction on the
\* network: a returned result with the backend's acceptance has, one with
\* an error payload has not, a thrown request may have (the response was
\* lost) once the transaction was signed
Submitted(c, out) ==
    IF c.tool # "sendTrx" \/ c.pc = "tronscan" THEN {FALSE}
    ELSE IF out.ok THEN {out.body.payload # "error"}
    ELSE IF c.signed = NULL THEN {FALSE}
    ELSE BOOLEAN

\* ghosts: broadcasts counts the transactions of the call that reached the
\* network, signers collects the keys they were signed with
Broadcast(c, submitted) ==
    IF submitted
    THEN [c EXCEPT !.broadcasts = @ + 1, !.signers = @ \cup {c.signed}]
    ELSE c

Finish(c, result) ==
    [c EXCEPT !.pc = "done", !.result = result,
              !.response = ToolResponse(c.tool, result)]

\* the outer catch: McpError(`${operationName} failed: ${error.message}`)
FailWith(c, inner) ==
    Finish(c, [status |-> "error", body |-> NoBody,
               message |-> <<OperationName(c.tool), "failed:">> \o inner])

\* faulty variant: the spread comes last, { source: tag, ...result }
SucceedKeepingThunkSource(c, cand, body) ==
    Finish([c EXCEPT !.thunkSource = body.source],
           [status |-> "ok",
            body |-> [body EXCEPT !.source = IF @ = NULL THEN SourceTag(cand) ELSE @],
            message |-> <<>>])

\* return { ...result, source: tag }; thunkSource keeps the source field the
\* thunk's own result had (NULL when it had none)
Succeed(c, cand, body) ==
    Finish([c EXCEPT !.thunkSource = body.source],
           [status |-> "ok", body |-> [body EXCEPT !.source = SourceTag(cand)],
            message |-> <<>>])

\* sources.push(`${label} ${error.message}`)
Record(c, cand, msg) ==
    [c EXCEPT !.sources = @ \o <<SourceLabel(cand), msg>>]

\* what follows a failed explorer candidate
AfterTronscan(c) ==
    IF c.available = F
    THEN FailWith(c, <<"All API sources failed for", OperationName(c.tool)>> \o c.sources)
    ELSE FailWith(c, <<"All sources failed for", OperationName(c.tool)>> \o c.sources)

\* faulty variant: a failed gateway candidate is retried once
AfterTrongridRetrying(c) ==
    IF "trongrid" \in c.threw /\ Len(SelectSeq(c.invoked, LAMBDA x : x = "trongrid")) < 2
    THEN Invoke(c, "trongrid")
    ELSE IF "tronscan" \in c.operation THEN Invoke(c, "tronscan")
    ELSE IF c.available = F
         THEN FailWith(c, <<"No fallback sources available for", OperationName(c.tool)>>)
         ELSE FailWith(c, <<c.sources[2]>>)

\* what follows the gateway candidate (failed, or absent from the map)
AfterTrongrid(c) ==
    IF "tronscan" \in c.operation THEN Invoke(c, "tronscan")
    ELSE IF c.available = F
         THEN FailWith(c, <<"No fallback sources available for", OperationName(c.tool)>>)
         ELSE FailWith(c, <<c.sources[2]>>)       \* throw nodeError


\* faulty variant: the explorer is tried before the gateway
AfterTronwebExplorerFirst(c) ==
    IF "tronscan" \in c.operation THEN Invoke(c, "tronscan") ELSE AfterTrongrid(c)

\* what follows the availability check or a failed primary candidate
AfterTronweb(c) ==
    IF "trongrid" \in c.operation THEN Invoke(c, "trongrid") ELSE AfterTrongrid(c)

\* the value checkNodeAvailability caches for a probe outcome
ProbeResult(outcome) == IF outcome = "fast" THEN T ELSE F


(***************************************************************************)
(* AccountModule.getBalance: base-unit conversion.                         *)
(***************************************************************************)
SUN_PER_TRX == 1000000


\* faulty variant: the divisor is one digit short
fromSunWrongScale(balance) ==
    [whole |-> balance \div 100000, micro |-> balance % 100000]

\* a TRX amount is a decimal number: whole TRX and millionths of a TRX
\* balance / 1000000, tronWeb.fromSun(balance)
fromSun(balance) ==
    [whole |-> balance \div SUN_PER_TRX, micro |-> balance % SUN_PER_TRX]

\* a TRX amount multiplied by 1,000,000
timesMillion(trx) == (trx.whole * 1000000) + trx.micro

SunSamples == {0, 1, 999999, 1000000, 1000001, MaxSun}

\* what a balance request can do: throw, answer without a balance field
\* (gateway and explorer only: an empty account object, or an error object
\* under a success status), or answer with a raw balance
BalanceResponses(cand) ==
    {[ok |-> FALSE, has |-> FALSE, sun |-> 0, error |-> FALSE]}
    \cup {[ok |-> TRUE, has |-> TRUE, sun |-> n, error |-> FALSE] : n \in SunSamples}
    \cup (IF cand = "tronweb" THEN {}
          ELSE {[ok |-> TRUE, has |-> FALSE, sun |-> 0, error |-> e] : e \in BOOLEAN})

\* the body getBalance returns for an answer of a backend
BalanceBody(cand, r) ==
    LET balance == IF r.has THEN r.sun ELSE 0      \* accountData.balance || 0
    IN  [kind |-> "balance", source |-> SourceTag(cand), entries |-> {},
         balance |-> fromSun(balance), balanceInSun |-> balance,
         reported |-> r.sun, payload |-> IF r.error THEN "error" ELSE "data"]

(***************************************************************************)
(* Initial state: the server as constructed, no request in flight.         *)
(***************************************************************************)
NoInput == [functionName |-> <<>>, parameters |-> <<>>,
            contractAddress |-> NULL, toAddress |-> NULL]

\* a cache file: exists, younger than ttl (fresh), and the data it holds
CacheFile(exists, fresh, data) == [exists |-> exists, fresh |-> fresh, data |-> data]

NoCacheFile == CacheFile(FALSE, FALSE, 0)

\* a getCachedOrFetch call: fetched counts its calls of fetchFunction,
\* sawFresh/sawEntry tell what it found at fs.stat, fetchOk that its fetch
\* succeeded and data what was fetched (ghosts)
IdleLookup ==
    [pc |-> "idle", fetched |-> 0, sawEntry |-> FALSE, sawFresh |-> FALSE,
     fetchOk |-> FALSE, data |-> 0, stored |-> FALSE, foundStale |-> FALSE,
     status |-> "none", result |-> 0, error |-> "none"]

InitCache(file) ==
    /\ cacheFile = file
    /\ lookups = [p \in Procs |-> IdleLookup]
    /\ fetchCount = 0

\* new NetworkMonitor(): initialize() has not run, no interval is set
NewNetworkMonitor == [initialize |-> "pending", updateInterval |-> NULL, updates |-> 0]

\* new TronScanAPI() for a list of configured keys
TronScanAPI(apiKeys) == [apiKeys |-> apiKeys, currentKeyIndex |-> 0]

\* PRIVATE_KEY is the configured key (env) or NULL
InitServer(env) ==
    /\ nodeAvailable = NULL
    /\ energyEstimator = NULL
    /\ networkParameters = NULL
    /\ calls = [p \in Procs |-> IdleCall]
    /\ primaryFailed = FALSE
    /\ PRIVATE_KEY = env
    /\ defaultPrivateKey = env      \* initializeTronWeb: setPrivateKey(PRIVATE_KEY)
    /\ probes = 0
    /\ networkMonitor = NewNetworkMonitor

\* a server configured with a signing key and no explorer keys
Init ==
    /\ InitServer(ENV_KEY)
    /\ hInput = NoInput
    /\ hLog = <<>>
    /\ tronScanAPI = TronScanAPI(<<>>)
    /\ keyRequests = <<>>
    /\ InitCache(NoCacheFile)

\* a server with or without a configured signing key
InitTools ==
    /\ \E env \in {NULL, ENV_KEY} : InitServer(env)
    /\ hInput = NoInput
    /\ hLog = <<>>
    /\ tronScanAPI = TronScanAPI(<<>>)
    /\ keyRequests = <<>>
    /\ InitCache(NoCacheFile)

(***************************************************************************)
(* Background initialisation.                                              *)
(***************************************************************************)
\* the setTimeout callback of initializeTronWeb
initEnergyEstimator ==
    /\ energyEstimator = NULL
    /\ energyEstimator' = "EnergyEstimator"
    /\ UNCHANGED <<nodeAvailable, networkParameters, calls, primaryFailed, hInput, hLog, signing, explorerKeys, probes, networkMonitor, explorerCache>>

\* a successful NetworkMonitor.updateNetworkData
\* and of the initialize() that awaits it: the hourly interval is set
updateNetworkData ==
    /\ networkMonitor.initialize = "pending"
    /\ networkParameters = NULL
    /\ networkParameters' = "parameters"
    /\ networkMonitor' = [initialize |-> "done", updateInterval |-> "hourly", updates |-> 1]
    /\ UNCHANGED <<nodeAvailable, energyEstimator, calls, primaryFailed, hInput, hLog,
                   signing, explorerKeys, probes, explorerCache>>

(***************************************************************************)
(* A tool request arrives: the handler runs up to its first suspension.    *)
(***************************************************************************)
\* the key of the shared tronWeb instance once sendTrx has run
\* `if (privateKey) this.tronWeb.setPrivateKey(privateKey)`
setPrivateKey(tool, args) ==
    IF tool = "sendTrx" /\ args.privateKey # NULL
    THEN args.privateKey
    ELSE defaultPrivateKey

\* sendTrx: !privateKey && !process.env.PRIVATE_KEY && !tronWeb.defaultPrivateKey
PrivateKeyRequired(tool, args) ==
    /\ tool = "sendTrx"
    /\ args.privateKey = NULL
    /\ PRIVATE_KEY = NULL
    /\ setPrivateKey(tool, args) = NULL

\* the first updateNetworkData throws: at one of its requests (assigned =
\* FALSE, networkData untouched) or at saveNetworkData, after networkData was
\* assigned (assigned = TRUE); initialize() rethrows before its setInterval
updateNetworkDataFails(assigned) ==
    /\ networkMonitor.initialize = "pending"
    /\ networkParameters = NULL
    /\ networkParameters' = IF assigned THEN "parameters" ELSE NULL
    /\ networkMonitor' = [networkMonitor EXCEPT !.initialize = "failed", !.updates = 1]
    /\ UNCHANGED <<nodeAvailable, energyEstimator, calls, primaryFailed, hInput, hLog,
                   signing, explorerKeys, probes, explorerCache>>

\* the callback of setInterval: a later updateNetworkData, whose rejection
\* is only logged
hourlyUpdate(ok) ==
    /\ networkMonitor.updateInterval # NULL
    /\ ok \/ networkMonitor.updates < MaxUpdates
    /\ networkParameters' = IF ok THEN "parameters" ELSE networkParameters
    /\ networkMonitor' = [networkMonitor EXCEPT
                             !.updates = IF @ < MaxUpdates THEN @ + 1 ELSE @]
    /\ UNCHANGED <<nodeAvailable, energyEstimator, calls, primaryFailed, hInput, hLog,
                   signing, explorerKeys, probes, explorerCache>>

\* faulty variant of AnsweredFromMonitor: asks whether initialize() completed
AnsweredFromMonitorWhenInitialized(tool) ==
    tool = "getChainParameters" /\ networkMonitor.initialize = "done"

\* getChainParameters: networkMonitor.getChainParameters() is truthy
AnsweredFromMonitor(tool) ==
    tool = "getChainParameters" /\ networkParameters # NULL

PrivateKeyRequiredMessage ==
    <<"Failed to send TRX:", "Private key required for sending transactions">>

ToolCall(p, tool, operation, args) ==
    /\ calls[p].pc = "idle"
    /\ LET c == [IdleCall EXCEPT !.tool = tool, !.operation = operation,
                                 !.args = args, !.latched = primaryFailed]
           started ==
             IF tool = "getBalance"
             THEN Invoke(c, "tronweb")
             ELSE IF PrivateKeyRequired(tool, args)
             THEN [c EXCEPT !.pc = "done",
                            !.response = [status |-> "error", body |-> NoBody,
                                          message |-> PrivateKeyRequiredMessage]]
             ELSE IF AnsweredFromMonitor(tool)
             THEN [c EXCEPT !.pc = "done",
                            !.response = [status |-> "ok",
                                          body |-> Body("data", "network_monitor_cache", {}),
                                          message |-> <<>>]]
             ELSE IF nodeAvailable # NULL
             THEN [c EXCEPT !.pc = "checked", !.available = nodeAvailable]
             ELSE [c EXCEPT !.pc = "probe"]
       IN  /\ calls' = [calls EXCEPT ![p] = started]
           /\ defaultPrivateKey' = setPrivateKey(tool, args)
           \* checkNodeAvailability runs up to `await getCurrentBlock()`
           /\ probes' = IF started.pc = "probe" THEN probes + 1 ELSE probes
    /\ UNCHANGED <<nodeAvailable, energyEstimator, networkParameters, primaryFailed,
                   hInput, hLog, PRIVATE_KEY, explorerKeys, networkMonitor,
                   explorerCache>>

\* a tool routed through executeWithFallback, or a direct call of it
RequestRouted(p) ==
    \/ \E tool \in {"contractCall", "sendTrx", "getChainParameters", "getEnergyPrices"} :
           ToolCall(p, tool, Candidates, NoArgs)
    \/ \E operation \in CandidateMaps : ToolCall(p, "direct", operation, NoArgs)

\* estimate_energy, estimate_contract_energy
RequestEstimation(p) ==
    \E tool \in EstimationTools, args \in EstimationArgs :
        ToolCall(p, tool, Candidates, args)

\* get_balance
RequestBalance(p) == ToolCall(p, "getBalance", Candidates, NoArgs)

\* send_trx, with or without a privateKey argument
RequestSend(p) == \E args \in SendArgs : ToolCall(p, "sendTrx", Candidates, args)

(***************************************************************************)
(* checkNodeAvailability: the probe returns (fast, slow) or throws.        *)
(***************************************************************************)
checkNodeAvailability(p, outcome) ==
    /\ calls[p].pc = "probe"
    /\ nodeAvailable' = ProbeResult(outcome)
    /\ calls' = [calls EXCEPT ![p].pc = "checked",
                              ![p].available = ProbeResult(outcome)]
    /\ UNCHANGED <<energyEstimator, networkParameters, primaryFailed, hInput, hLog, signing, explorerKeys, probes, networkMonitor, explorerCache>>

(***************************************************************************)
(* executeWithFallback resumes after the availability check.               *)
(***************************************************************************)
\* faulty variant: the result of the availability check is ignored
executeWithFallbackIgnoringCheck(p) ==
    LET c == calls[p] IN
    /\ c.pc = "checked"
    /\ IF "tronweb" \in c.operation
       THEN /\ calls' = [calls EXCEPT ![p] = Invoke(c, "tronweb")]
            /\ UNCHANGED nodeAvailable
       ELSE /\ calls' = [calls EXCEPT ![p] =
                  AfterTronweb(Record(c, "tronweb", "operation.tronweb is not a function"))]
            /\ nodeAvailable' = F
    /\ UNCHANGED <<energyEstimator, networkParameters, primaryFailed, hInput, hLog,
                   signing, explorerKeys, probes, networkMonitor, explorerCache>>

executeWithFallback(p) ==
    LET c == calls[p] IN
    /\ c.pc = "checked"
    /\ IF c.available = F
       THEN /\ calls' = [calls EXCEPT ![p] = AfterTronweb(c)]
            /\ UNCHANGED nodeAvailable
       ELSE IF "tronweb" \in c.operation
       THEN /\ calls' = [calls EXCEPT ![p] = Invoke(c, "tronweb")]
            /\ UNCHANGED nodeAvailable
       ELSE \* operation.tronweb is undefined: the call throws a TypeError
            /\ calls' = [calls EXCEPT ![p] =
                  AfterTronweb(Record(c, "tronweb", "operation.tronweb is not a function"))]
            /\ nodeAvailable' = F
    /\ UNCHANGED <<energyEstimator, networkParameters, primaryFailed, hInput, hLog, signing, explorerKeys, probes, networkMonitor, explorerCache>>

(***************************************************************************)
(* A candidate thunk of executeWithFallback returns or throws.             *)
(***************************************************************************)
TronwebReturn(p) ==
    LET c == calls[p] IN
    /\ c.pc = "tronweb" /\ c.tool # "getBalance"
    /\ \E out \in ThunkOutcomes(c.tool, "tronweb", c.args) :
       \E submitted \in Submitted(c, out) :
         IF out.ok
         THEN /\ calls' = [calls EXCEPT ![p] =
                    Succeed(Broadcast(c, submitted), "tronweb", out.body)]
              /\ UNCHANGED <<nodeAvailable, primaryFailed>>
         ELSE /\ calls' = [calls EXCEPT ![p] =
                    AfterTronweb([Record(Broadcast(c, submitted), "tronweb", out.msg)
                                     EXCEPT !.threw = @ \cup {"tronweb"}])]
              /\ nodeAvailable' = F
              /\ primaryFailed' = TRUE
    /\ UNCHANGED <<energyEstimator, networkParameters, hInput, hLog, signing, explorerKeys, probes, networkMonitor, explorerCache>>

TrongridReturn(p) ==
    LET c == calls[p] IN
    /\ c.pc = "trongrid" /\ c.tool # "getBalance"
    /\ \E out \in ThunkOutcomes(c.tool, "trongrid", c.args) :
       \E submitted \in Submitted(c, out) :
         \* sendTrx's broadcast request answers only after trx.sign
         /\ (c.tool = "sendTrx" /\ out.ok) => c.signed # NULL
         /\ calls' = [calls EXCEPT ![p] =
              IF out.ok
              THEN Succeed(Broadcast(c, submitted), "trongrid", out.body)
              ELSE AfterTrongrid([Record(Broadcast(c, submitted), "trongrid", out.msg)
                                     EXCEPT !.threw = @ \cup {"trongrid"}])]
    /\ UNCHANGED <<nodeAvailable, energyEstimator, networkParameters, primaryFailed,
                   hInput, hLog, signing, explorerKeys, probes, networkMonitor, explorerCache>>

\* sendTrx's gateway thunk: transactionBuilder.sendTrx has answered and
\* tronWeb.trx.sign(unsignedTx) signs with tronWeb.defaultPrivateKey
trxSign(p) ==
    LET c == calls[p] IN
    /\ c.pc = "trongrid" /\ c.tool = "sendTrx" /\ c.signed = NULL
    /\ calls' = [calls EXCEPT ![p].signed = defaultPrivateKey]
    /\ UNCHANGED <<nodeAvailable, energyEstimator, networkParameters, primaryFailed,
                   hInput, hLog, signing, explorerKeys, probes, networkMonitor, explorerCache>>

TronscanReturn(p) ==
    LET c == calls[p] IN
    /\ c.pc = "tronscan" /\ c.tool # "getBalance"
    /\ \E out \in ThunkOutcomes(c.tool, "tronscan", c.args) :
         calls' = [calls EXCEPT ![p] =
            IF out.ok
            THEN Succeed(c, "tronscan", out.body)
            ELSE AfterTronscan([Record(c, "tronscan", out.msg)
                                   EXCEPT !.threw = @ \cup {"tronscan"}])]
    /\ UNCHANGED <<nodeAvailable, energyEstimator, networkParameters, primaryFailed,
                   hInput, hLog, signing, explorerKeys, probes, networkMonitor, explorerCache>>

(***************************************************************************)
(* AccountModule.getBalance: a balance request returns or throws.          *)
(***************************************************************************)
getBalance(p) ==
    LET c    == calls[p]
        cand == c.pc
    IN
    /\ c.tool = "getBalance" /\ c.pc \in Candidates
    /\ \E r \in BalanceResponses(cand) :
         calls' = [calls EXCEPT ![p] =
            IF r.ok
            THEN [c EXCEPT !.pc = "done",
                           !.response = [status |-> "ok", body |-> BalanceBody(cand, r),
                                         message |-> <<>>]]
            ELSE LET c1 == [c EXCEPT !.sources = Append(@, BackendError(cand)),
                                     !.threw = @ \cup {cand}]
                 IN  CASE cand = "tronweb"  -> Invoke(c1, "trongrid")
                       [] cand = "trongrid" -> Invoke(c1, "tronscan")
                       [] cand = "tronscan" ->
                            [c1 EXCEPT !.pc = "done",
                                       !.response = [status |-> "error", body |-> NoBody,
                                           message |-> <<"Failed to get balance:",
                                                         "All sources failed:">>
                                                       \o c1.sources]]]
    /\ UNCHANGED <<nodeAvailable, energyEstimator, networkParameters, primaryFailed,
                   hInput, hLog, signing, explorerKeys, probes, networkMonitor, explorerCache>>

(***************************************************************************)
(* The response is serialised; the per-request state is discarded.         *)
(***************************************************************************)
Respond(p) ==
    /\ calls[p].pc = "done"
    /\ calls' = [calls EXCEPT ![p] = IdleCall]
    /\ UNCHANGED <<nodeAvailable, energyEstimator, networkParameters, primaryFailed,
                   hInput, hLog, signing, explorerKeys, probes, networkMonitor, explorerCache>>

(***************************************************************************)
(* Spec: requests routed through executeWithFallback, handled              *)
(* concurrently in all request slots.                                      *)
(***************************************************************************)
Next ==
    \/ initEnergyEstimator
    \/ updateNetworkData
    \/ \E assigned \in BOOLEAN : updateNetworkDataFails(assigned)
    \/ \E p \in Procs : RequestRouted(p)
    \/ \E p \in Procs, outcome \in {"fast", "slow", "throw"} : checkNodeAvailability(p, outcome)
    \/ \E p \in Procs : executeWithFallback(p)
    \/ \E p \in Procs : TronwebReturn(p)
    \/ \E p \in Procs : trxSign(p)
    \/ \E p \in Procs : TrongridReturn(p)
    \/ \E p \in Procs : TronscanReturn(p)
    \/ \E p \in Procs : Respond(p)

Spec == Init /\ [][Next]_vars

(***************************************************************************)
(* SpecTools: every tool with its arguments, one request at a time.        *)
(***************************************************************************)
Slot == "r1"

NextTools ==
    \/ initEnergyEstimator
    \/ updateNetworkData
    \/ RequestRouted(Slot)
    \/ RequestEstimation(Slot)
    \/ RequestBalance(Slot)
    \/ RequestSend(Slot)
    \/ \E outcome \in {"fast", "slow", "throw"} : checkNodeAvailability(Slot, outcome)
    \/ executeWithFallback(Slot)
    \/ TronwebReturn(Slot)
    \/ trxSign(Slot)
    \/ TrongridReturn(Slot)
    \/ TronscanReturn(Slot)
    \/ getBalance(Slot)
    \/ Respond(Slot)

SpecTools == InitTools /\ [][NextTools]_vars


(***************************************************************************)
(* SpecHeuristic: the heuristic evaluated repeatedly on one input while    *)
(* the server handles direct executeWithFallback calls.                    *)
(***************************************************************************)
HeuristicNames ==
    {s_transfer, s_Transfer, s_approve, s_transferFrom, s_balanceOf, s_sendToken,
     s_allowance, s_swapExact, s_exchange, s_mint, s_burn, s_view, s_getOwner,
     s_balance, s_stake, s_mintTransfer, s_getApproved}

ParameterLists == {[i \in 1..n |-> AMOUNT] : n \in 0..MaxExtraParams}

HeuristicInputs ==
    [functionName    : HeuristicNames,
     parameters      : ParameterLists,
     contractAddress : {USDT_CONTRACT, OTHER_CONTRACT},
     toAddress       : {NULL, NEW_ADDRESS, ADDRESS_WITH_USDT, ADDRESS_WITHOUT_USDT}]

InitHeuristic ==
    /\ InitServer(ENV_KEY)
    /\ hInput \in HeuristicInputs
    /\ hLog = <<>>
    /\ tronScanAPI = TronScanAPI(<<>>)
    /\ keyRequests = <<>>
    /\ InitCache(NoCacheFile)

\* one call of getFallbackEnergyEstimate on the input
HeuristicCall ==
    /\ Len(hLog) < MaxEvals
    /\ hLog' = Append(hLog, getFallbackEnergyEstimate(hInput.functionName,
                   hInput.parameters, hInput.contractAddress, hInput.toAddress))
    /\ UNCHANGED <<nodeAvailable, energyEstimator, networkParameters, calls,
                   primaryFailed, hInput, signing, explorerKeys, probes, networkMonitor, explorerCache>>

NextHeuristic ==
    \/ HeuristicCall
    \/ ToolCall(Slot, "direct", Candidates, NoArgs)
    \/ \E outcome \in {"fast", "slow", "throw"} : checkNodeAvailability(Slot, outcome)
    \/ executeWithFallback(Slot)
    \/ TronwebReturn(Slot)
    \/ TrongridReturn(Slot)
    \/ TronscanReturn(Slot)
    \/ Respond(Slot)

SpecHeuristic == InitHeuristic /\ [][NextHeuristic]_vars

(***************************************************************************)
(* Properties.                                                             *)
(***************************************************************************)
Range(f) == {f[i] : i \in DOMAIN f}

Done(c) == c.pc = "done"

\* the message with which cand failed in call c, as executeWithFallback recorded it
FailureMessage(c, cand) ==
    c.sources[(CHOOSE i \in DOMAIN c.sources : c.sources[i] = SourceLabel(cand)) + 1]

\* C1 - Fallback ordering: when all three candidates are supplied, the
\* primary thunk throws and the gateway thunk succeeds, the result is tagged
\* trongrid_api and the explorer thunk is never invoked.
FallbackOrdering ==
    \A p \in Procs :
        LET c == calls[p] IN
        (/\ Done(c)
         /\ c.operation = Candidates
         /\ "tronweb" \in c.threw
         /\ "trongrid" \in Range(c.invoked)
         /\ "trongrid" \notin c.threw)
        => /\ c.result.status = "ok"
           /\ c.result.body.source = "trongrid_api"
           /\ "tronscan" \notin Range(c.invoked)

FallbackOrderingWitness ==
    \E p \in Procs :
        /\ Done(calls[p])
        /\ calls[p].operation = Candidates
        /\ calls[p].invoked = <<"tronweb", "trongrid">>
        /\ calls[p].threw = {"tronweb"}
        /\ calls[p].result.status = "ok"

\* C2 - Availability latch: once a primary thunk has thrown inside an
\* executeWithFallback call, nodeAvailable is false and no call that starts
\* afterwards invokes its primary thunk.
AvailabilityLatch ==
    /\ primaryFailed => nodeAvailable = F
    /\ \A p \in Procs : calls[p].latched => "tronweb" \notin Range(calls[p].invoked)

\* C3 - One-way latch: nodeAvailable only moves unknown->available,
\* unknown->unavailable and available->unavailable; once unavailable it never
\* becomes available or unknown again.
OneWayLatch ==
    [][nodeAvailable' # nodeAvailable =>
          <<nodeAvailable, nodeAvailable'>> \in {<<NULL, T>>, <<NULL, F>>, <<T, F>>}]_vars

\* C4 - Aggregate error completeness: when every attempted candidate of an
\* executeWithFallback call threw, the raised error starts with the operation
\* name and contains the failure message of each attempted candidate.
AggregateErrorCompleteness ==
    \A p \in Procs :
        LET c == calls[p] IN
        (Done(c) /\ c.result.status = "error")
        => /\ c.result.message[1] = OperationName(c.tool)
           /\ \A cand \in c.threw :
                  FailureMessage(c, cand) \in Range(c.result.message)

\* C5 - Estimation never hard-fails: every estimate_energy and
\* estimate_contract_energy request is answered with a result that holds a
\* numeric energy figure, whatever the backends did.
EstimationNeverFails ==
    \A p \in Procs :
        LET c == calls[p] IN
        (Done(c) /\ c.tool \in EstimationTools)
        => /\ c.response.status = "ok"
           /\ c.response.body.kind = "estimate"
           /\ \E e \in c.response.body.entries : e.value \in Nat

\* an estimation answered although the primary estimator threw and every
\* gateway request failed
EstimationNeverFailsWitness ==
    \E p \in Procs :
        LET c == calls[p] IN
        /\ Done(c) /\ c.tool \in EstimationTools
        /\ "tronweb" \in c.threw
        /\ c.response.status = "ok"
        /\ \A e \in c.response.body.entries : e.origin = "static"

\* C6 - Heuristic results are labelled: every energy figure of an estimation
\* result that is a static constant carries accuracy 'low', and none carries
\* accuracy 'high'.
HeuristicLabelledLow ==
    \A p \in Procs :
        LET c == calls[p] IN
        (Done(c) /\ c.tool \in EstimationTools /\ c.response.status = "ok")
        => \A e \in c.response.body.entries :
               e.origin = "static" => (e.accuracy = "low" /\ e.accuracy # "high")

ReadOnlySourceExclusion ==
    \A p \in Procs :
        LET c == calls[p] IN
        c.tool \in {"sendTrx", "contractCall"}
        => /\ "tronscan" \in Range(c.invoked)
                => /\ "trongrid" \in c.threw
                   /\ ("tronweb" \in c.threw \/ c.available = F)
           /\ \A cand \in {"tronweb", "trongrid"} :
                (Done(c) /\ cand \in Range(c.invoked) /\ cand \notin c.threw)
                => /\ c.response.status = "ok"
                   /\ c.response.body.source = SourceTag(cand)
                   /\ "tronscan" \notin Range(c.invoked)

ReadOnlySourceExclusionWitness ==
    \E p \in Procs :
        LET c == calls[p] IN
        /\ Done(c)
        /\ c.tool = "sendTrx"
        /\ c.threw = {"tronweb"}
        /\ c.invoked = <<"tronweb", "trongrid">>
        /\ c.response.status = "ok"

\* the input of the spec's example: transfer on the known token contract to
\* the known new/empty address
KnownTransferToNewAddress ==
    /\ toLowerCase(hInput.functionName) = s_transfer
    /\ hInput.contractAddress = USDT_CONTRACT
    /\ hInput.toAddress = NEW_ADDRESS

Answering(c) == c.invoked[Len(c.invoked)]

\* C11 - Source tag: every result executeWithFallback returns carries the tag
\* of the candidate whose thunk returned it (tronweb_node, trongrid_api or
\* tronscan_api), also when the thunk's own result had another source field;
\* no result is returned without a source or with another candidate's tag.
SourceTagged ==
    \A p \in Procs :
        LET c == calls[p] IN
        (Done(c) /\ c.result.status = "ok")
        => /\ c.invoked # <<>>
           /\ Answering(c) \notin c.threw
           /\ c.result.body.source = SourceTag(Answering(c))
           /\ c.result.body.source \in {"tronweb_node", "trongrid_api", "tronscan_api"}
           /\ \A cand \in Candidates \ {Answering(c)} :
                  c.result.body.source # SourceTag(cand)

\* the gateway answered with a result that had its own source field
SourceTaggedWitness ==
    \E p \in Procs :
        LET c == calls[p] IN
        /\ Done(c) /\ c.result.status = "ok"
        /\ c.tool = "getEnergyPrices"
        /\ c.thunkSource = "chain_parameters"
        /\ Answering(c) = "trongrid"
        /\ c.result.body.source = "trongrid_api"

\* the tools the README lists as "Supported Functions with Fallback"
FallbackListedTools ==
    {"getBalance", "getAccountResources", "getTransaction", "getBlock",
     "getCurrentBlockNumber", "getChainParameters", "contractCall", "sendTrx"}

\* call p invokes candidate cand in this step
Invokes(p, cand) ==
    /\ Len(calls'[p].invoked) = Len(calls[p].invoked) + 1
    /\ Answering(calls'[p]) = cand

\* C12 - Availability-based selection for all listed tools: once the local
\* node is recorded unavailable, no call of a tool the README lists with
\* fallback contacts the local node, and the first backend such a call
\* contacts is TronGrid.
AvailabilityBasedSelection ==
    [][\A p \in Procs :
          (nodeAvailable = F /\ calls'[p].tool \in FallbackListedTools)
          => /\ ~Invokes(p, "tronweb")
             /\ (calls[p].invoked = <<>> /\ calls'[p].invoked # <<>>)
                    => Invokes(p, "trongrid")]_vars

\* call c is an estimation request whose contract address is malformed
MalformedRequest(c) ==
    c.tool \in EstimationTools /\ ~isAddress(c.args.contractAddress)

\* C13 - Invalid address fails fast: a request with a malformed address
\* fails at once with an invalid-address error; no probe and no candidate
\* (primary, gateway, explorer) is attempted for it and the availability
\* flag is left unchanged.
InvalidAddressFailsFast ==
    [][\A p \in Procs :
          MalformedRequest(calls'[p])
          => /\ Done(calls'[p])
             /\ calls'[p].response.status = "error"
             /\ calls'[p].invoked = <<>>
             /\ nodeAvailable' = nodeAvailable]_vars

\* C14 - No per-request state persists: a privateKey argument of one
\* send_trx call is used for that call only, so every send_trx call without
\* privateKey on a server without PRIVATE_KEY, also one that follows a call
\* which supplied a key, is rejected with 'Private key required' before any
\* backend is tried.
KeyUsedOnlyForItsCall ==
    \A p \in Procs :
        LET c == calls[p] IN
        (c.tool = "sendTrx" /\ c.args.privateKey = NULL /\ PRIVATE_KEY = NULL)
        => /\ Done(c)
           /\ c.response.status = "error"
           /\ c.response.message = PrivateKeyRequiredMessage
           /\ c.invoked = <<>>

(***************************************************************************)
(* SpecKeys: TronScanAPI, the explorer client with rotating API keys.      *)
(* A request is issued by makeRequest (getApiKey, then the HTTP request)   *)
(* and settles later; requests overlap.                                    *)
(***************************************************************************)
KeyNames == <<"key1", "key2", "key3", "key4", "key5", "key6">>

\* process.env.API_KEYS.split(','), or [] when API_KEYS is not set
ApiKeyLists == {SubSeq(KeyNames, 1, n) : n \in 0..MaxKeys}

\* the value getApiKey returns
getApiKey(api) ==
    IF Len(api.apiKeys) = 0 THEN NULL ELSE api.apiKeys[api.currentKeyIndex + 1]

\* faulty variant: the index is not advanced
advanceKeyIndexStuck(api) == api

\* the client after a getApiKey call
advanceKeyIndex(api) ==
    IF Len(api.apiKeys) = 0
    THEN api
    ELSE [api EXCEPT !.currentKeyIndex = (@ + 1) % Len(api.apiKeys)]

\* headers = apiKey ? { 'TRON-PRO-API-KEY': apiKey } : {}
KeyHeader(apiKey) == IF apiKey # NULL THEN {<<"TRON-PRO-API-KEY", apiKey>>} ELSE {}

InitKeys ==
    /\ InitServer(ENV_KEY)
    /\ hInput = NoInput
    /\ hLog = <<>>
    /\ \E keys \in ApiKeyLists : tronScanAPI = TronScanAPI(keys)
    /\ keyRequests = <<>>
    /\ InitCache(NoCacheFile)

\* makeRequest up to `await axios.get(...)`
makeRequest ==
    /\ Len(keyRequests) < MaxRequests
    /\ LET apiKey == getApiKey(tronScanAPI)
       IN  keyRequests' = Append(keyRequests,
               [apiKey |-> apiKey, headers |-> KeyHeader(apiKey), state |-> "sent"])
    /\ tronScanAPI' = advanceKeyIndex(tronScanAPI)
    /\ UNCHANGED <<nodeAvailable, energyEstimator, networkParameters, calls,
                   primaryFailed, hInput, hLog, signing, probes, networkMonitor, explorerCache>>

\* the HTTP request of makeRequest returns data, or throws
makeRequestSettles(i, outcome) ==
    /\ i \in DOMAIN keyRequests
    /\ keyRequests[i].state = "sent"
    /\ keyRequests' = [keyRequests EXCEPT ![i].state = outcome]
    /\ UNCHANGED <<nodeAvailable, energyEstimator, networkParameters, calls,
                   primaryFailed, hInput, hLog, signing, tronScanAPI, probes, networkMonitor, explorerCache>>

NextKeys ==
    \/ makeRequest
    \/ \E i \in 1..MaxRequests, outcome \in {"returned", "threw"} :
           makeRequestSettles(i, outcome)

SpecKeys == InitKeys /\ [][NextKeys]_vars

\* C15 - Round-robin key rotation: with n >= 1 keys configured the k-th
\* getApiKey call returns key number (k-1) mod n and the request carries it
\* in its header, currentKeyIndex stays within 0..n-1, and any n consecutive
\* requests use each key exactly once; with no keys getApiKey returns null,
\* the index does not change and no key header is sent.
RoundRobinKeys ==
    LET n    == Len(tronScanAPI.apiKeys)
        keys == tronScanAPI.apiKeys
    IN  IF n >= 1
        THEN /\ tronScanAPI.currentKeyIndex \in 0..(n - 1)
             /\ \A k \in DOMAIN keyRequests :
                    /\ keyRequests[k].apiKey = keys[((k - 1) % n) + 1]
                    /\ keyRequests[k].headers = {<<"TRON-PRO-API-KEY", keys[((k - 1) % n) + 1]>>}
             /\ \A k \in DOMAIN keyRequests :
                    (k + n - 1) \in DOMAIN keyRequests
                    => \A key \in Range(keys) :
                           Cardinality({j \in k..(k + n - 1) : keyRequests[j].apiKey = key}) = 1
        ELSE /\ tronScanAPI.currentKeyIndex = 0
             /\ \A k \in DOMAIN keyRequests :
                    keyRequests[k].apiKey = NULL /\ keyRequests[k].headers = {}

\* the rotation has wrapped around with several keys configured
RoundRobinKeysWitness ==
    /\ Len(tronScanAPI.apiKeys) >= 2
    /\ Len(keyRequests) > Len(tronScanAPI.apiKeys)
    /\ keyRequests[Len(keyRequests)].apiKey = tronScanAPI.apiKeys[1]

\* C16 - The primary is probed at most once: only the first
\* checkNodeAvailability call issues a probe; every other call, also one that
\* begins while the first probe is in flight, issues none.
ProbedAtMostOnce ==
    /\ probes <= 1
    /\ Cardinality({p \in Procs : calls[p].pc = "probe"}) <= 1

(***************************************************************************)
(* SpecProbe: one request at a time, with a probe request that may never   *)
(* settle.  checkNodeAvailability awaits getCurrentBlock() and arms no     *)
(* timer, so a call whose probe hangs has no further step.  The runtime    *)
(* resumes every continuation that is ready and a backend that settles     *)
(* does so eventually: weak fairness on those steps.  Arriving requests    *)
(* and a hanging probe are the environment's choice and get none.          *)
(***************************************************************************)
\* the probe request of call p neither returns nor throws
ProbeHangs(p) ==
    /\ calls[p].pc = "probe"
    /\ calls' = [calls EXCEPT ![p].pc = "hung"]
    /\ UNCHANGED <<nodeAvailable, energyEstimator, networkParameters, primaryFailed,
                   hInput, hLog, signing, explorerKeys, probes, networkMonitor, explorerCache>>

NextProbe ==
    \/ initEnergyEstimator
    \/ updateNetworkData
    \/ RequestRouted(Slot)
    \/ \E outcome \in {"fast", "slow", "throw"} : checkNodeAvailability(Slot, outcome)
    \/ ProbeHangs(Slot)
    \/ executeWithFallback(Slot)
    \/ TronwebReturn(Slot)
    \/ trxSign(Slot)
    \/ TrongridReturn(Slot)
    \/ TronscanReturn(Slot)
    \/ Respond(Slot)

SpecProbe ==
    /\ Init
    /\ [][NextProbe]_vars
    /\ WF_vars(initEnergyEstimator)
    /\ WF_vars(updateNetworkData)
    /\ WF_vars(\E outcome \in {"fast", "slow", "throw"} : checkNodeAvailability(Slot, outcome))
    /\ WF_vars(executeWithFallback(Slot))
    /\ WF_vars(TronwebReturn(Slot))
    /\ WF_vars(trxSign(Slot))
    /\ WF_vars(TrongridReturn(Slot))
    /\ WF_vars(TronscanReturn(Slot))
    /\ WF_vars(Respond(Slot))

\* C17 - The probe is bounded by its timeout: a call whose probe request
\* neither returns nor throws still gets false from checkNodeAvailability,
\* which records it, and goes on past the primary.
ProbeBoundedByTimeout ==
    \A p \in {Slot} :
        (calls[p].pc = "hung")
        ~> (calls[p].available = F /\ nodeAvailable = F /\ calls[p].pc # "hung")

\* C18 - Primary only when reported available: the primary thunk is invoked
\* in an executeWithFallback call only if checkNodeAvailability returned true
\* in that call; when it returned false the primary is not attempted and the
\* first candidate invoked is the gateway (whenever the call supplies one).
PrimaryOnlyWhenAvailable ==
    \A p \in Procs :
        LET c == calls[p] IN
        c.tool \in RouterTools
        => /\ "tronweb" \in Range(c.invoked) => c.available = T
           /\ (c.available = F /\ c.invoked # <<>> /\ "trongrid" \in c.operation)
                  => c.invoked[1] = "trongrid"

\* the probe of a call answered slowly or threw, nothing had failed before,
\* and the call went to the gateway first
PrimaryOnlyWhenAvailableWitness ==
    \E p \in Procs :
        LET c == calls[p] IN
        /\ c.tool \in RouterTools
        /\ "tronweb" \in c.operation
        /\ c.available = F
        /\ ~primaryFailed
        /\ c.invoked = <<"trongrid">>

\* the place of a candidate in the fixed order
Order(cand) ==
    CASE cand = "tronweb"  -> 1
      [] cand = "trongrid" -> 2
      [] cand = "tronscan" -> 3

\* the thunks of call c that were invoked and have not settled
InFlight(c) ==
    IF Done(c) THEN {} ELSE {cand \in Range(c.invoked) : cand \notin c.threw}

\* C19 - Strictly sequential single attempts: within one executeWithFallback
\* call the candidates are invoked in the order primary, gateway, explorer,
\* each at most once, at most one thunk is in flight at any time, and a
\* candidate is invoked only after every earlier attempted one has thrown.
SequentialSingleAttempts ==
    \A p \in Procs :
        LET c == calls[p] IN
        c.tool \in RouterTools
        => /\ \A i, j \in DOMAIN c.invoked :
                  i < j => Order(c.invoked[i]) < Order(c.invoked[j])
           /\ \A i \in DOMAIN c.invoked : i < Len(c.invoked) => c.invoked[i] \in c.threw
           /\ Cardinality(InFlight(c)) <= 1
           /\ c.pc \in Candidates => InFlight(c) = {c.pc}

\* all three candidates were attempted, one after the other
SequentialSingleAttemptsWitness ==
    \E p \in Procs :
        LET c == calls[p] IN
        /\ c.tool \in RouterTools
        /\ c.invoked = <<"tronweb", "trongrid", "tronscan">>
        /\ c.threw = {"tronweb", "trongrid"}
        /\ InFlight(c) = {"tronscan"}

\* the figures an estimation result recommends: on the primary path
\* estimations.triggerConstantContract || estimations.estimateEnergy ||
\* estimations.fallback, on the gateway and explorer paths the energy figure
\* (both figures of a dual estimate)
Recommended(entries) ==
    IF \E e \in entries : e.name = "triggerConstantContract"
    THEN {e \in entries : e.name = "triggerConstantContract"}
    ELSE IF \E e \in entries : e.name = "estimateEnergy"
    THEN {e \in entries : e.name = "estimateEnergy"}
    ELSE IF \E e \in entries : e.name = "fallback"
    THEN {e \in entries : e.name = "fallback"}
    ELSE entries

\* C20 - Zero live estimate falls back to the heuristic: the recommended
\* energy of every estimation result is a positive number, for every contract
\* and function; a figure taken from a backend's answer is never 0, a zero or
\* missing answer being replaced by the heuristic value.
ZeroLiveFallsBackToHeuristic ==
    \A p \in Procs :
        LET c == calls[p] IN
        (Done(c) /\ c.tool \in EstimationTools /\ c.response.status = "ok")
        => \A e \in Recommended(c.response.body.entries) : e.value > 0

(***************************************************************************)
(* The decision table of the heuristic, as a table of rules.               *)
(***************************************************************************)
\* sub occurs somewhere in s
Occurs(sub, s) ==
    \E i \in 1..Len(s) : \E j \in i..Len(s) : SubSeq(s, i, j) = sub

\* the constants of the known token contract, by exact lower-case name
KnownContractRules ==
    {<<s_approve, 13180>>, <<s_transferfrom, 18190>>, <<s_balanceof, 680>>}

\* the substring rules, in order
SubstringRules ==
    << <<{s_transfer, s_send}, 14010>>,
       <<{s_approve, s_allowance}, 10000>>,
       <<{s_swap, s_exchange}, 50000>>,
       <<{s_mint, s_burn}, 30000>>,
       <<{s_view, s_get, s_balance}, 1000>> >>

\* the rules of SubstringRules that name matches
Matching(name) ==
    {k \in DOMAIN SubstringRules : \E sub \in SubstringRules[k][1] : Occurs(sub, name)}

DecisionTable(in) ==
    LET name == toLowerCase(in.functionName) IN
    IF in.contractAddress = USDT_CONTRACT /\ name = s_transfer
    THEN IF in.toAddress = NEW_ADDRESS THEN 28000 ELSE 13940
    ELSE IF in.contractAddress = USDT_CONTRACT /\ \E r \in KnownContractRules : r[1] = name
    THEN (CHOOSE r \in KnownContractRules : r[1] = name)[2]
    ELSE IF Matching(name) # {}
    THEN SubstringRules[CHOOSE k \in Matching(name) : \A m \in Matching(name) : k <= m][2]
    ELSE 20000 + (5000 * Len(in.parameters))

\* C21 - Heuristic decision table: getFallbackEnergyEstimate returns, for
\* every input, the value of the table: per-function constants for the exact
\* names on the known token contract (transfer by recipient, the new/empty
\* one about double), else the first matching substring rule, else
\* 20000 + 5000 x the number of parameters.
HeuristicDecisionTable ==
    \A i \in DOMAIN hLog : hLog[i] = DecisionTable(hInput)

\* a name that matches two substring rules, on the known contract
HeuristicDecisionTableWitness ==
    /\ hLog # <<>>
    /\ hInput.functionName = s_mintTransfer
    /\ hInput.contractAddress = USDT_CONTRACT
    /\ Len(hInput.parameters) = MaxExtraParams
    /\ hLog[1] = 14010

\* C22 - Adapters do not catch or retry: a candidate whose backend request
\* fails throws to executeWithFallback, so every result executeWithFallback
\* returns under a backend's tag was produced by a successful request to
\* that backend; an estimation result holds a figure the backend answered.
AdaptersDoNotCatch ==
    \A p \in Procs :
        LET c == calls[p] IN
        (/\ Done(c)
         /\ c.tool \in EstimationTools
         /\ c.result.status = "ok")
        => \E e \in c.result.body.entries : e.origin = "live"

\* C23 - Backend error payloads are failures: a gateway or explorer
\* response with a success status that carries the backend's own error
\* payload makes the candidate throw; it is never returned to the caller as
\* a successful, source-tagged result.
ErrorPayloadsAreFailures ==
    \A p \in Procs :
        LET c == calls[p] IN
        (Done(c) /\ c.response.status = "ok")
        => c.response.body.payload # "error"


\* C24 - Two-phase startup for chain parameters: requests are accepted
\* while the monitor's initialization is pending.  A get_chain_parameters
\* call that finds no parameters in the monitor (initialization pending or
\* failed) goes through executeWithFallback; one that finds parameters is
\* answered at once with source network_monitor_cache, no candidate is
\* invoked, no probe is issued and the availability flag is unchanged.
TwoPhaseChainParameters ==
    [][\A p \in Procs :
          (/\ calls[p].pc = "idle"
           /\ calls'[p].pc # "idle"
           /\ calls'[p].tool = "getChainParameters")
          => IF networkParameters # NULL
             THEN /\ calls'[p].pc = "done"
                  /\ calls'[p].response.status = "ok"
                  /\ calls'[p].response.body.source = "network_monitor_cache"
                  /\ calls'[p].invoked = <<>>
                  /\ nodeAvailable' = nodeAvailable
                  /\ probes' = probes
             ELSE /\ calls'[p].pc \in {"probe", "checked"}
                  /\ calls'[p].response = NoResult]_vars

\* one call answered through executeWithFallback before the monitor held
\* parameters, another answered from the monitor although its
\* initialize() failed and the primary is recorded unavailable
TwoPhaseChainParametersWitness ==
    /\ Done(calls["r1"])
    /\ calls["r1"].tool = "getChainParameters"
    /\ calls["r1"].invoked # <<>>
    /\ calls["r1"].response.status = "ok"
    /\ Done(calls["r2"])
    /\ calls["r2"].tool = "getChainParameters"
    /\ calls["r2"].response.body.source = "network_monitor_cache"
    /\ networkMonitor.initialize = "failed"
    /\ nodeAvailable = F


(***************************************************************************)
(* SpecMonitor: the network monitor's background initialization and its    *)
(* hourly refresh, next to one request slot.  The setImmediate callback    *)
(* runs and its first update settles; a scheduled interval keeps firing    *)
(* and, the backends answering again, an update succeeds.                  *)
(***************************************************************************)
firstUpdate ==
    \/ updateNetworkData
    \/ \E assigned \in BOOLEAN : updateNetworkDataFails(assigned)

NextMonitor ==
    \/ firstUpdate
    \/ \E ok \in BOOLEAN : hourlyUpdate(ok)
    \/ RequestRouted(Slot)
    \/ \E outcome \in {"fast", "slow", "throw"} : checkNodeAvailability(Slot, outcome)
    \/ executeWithFallback(Slot)
    \/ TronwebReturn(Slot)
    \/ trxSign(Slot)
    \/ TrongridReturn(Slot)
    \/ TronscanReturn(Slot)
    \/ Respond(Slot)

SpecMonitor ==
    /\ Init
    /\ [][NextMonitor]_vars
    /\ WF_vars(firstUpdate)
    /\ WF_vars(hourlyUpdate(TRUE))

\* C29 - The network monitor recovers from a failed first update: after
\* the first updateNetworkData inside initialize() has failed, the hourly
\* refresh still runs, so the monitor's chain parameters eventually become
\* non-null.
MonitorRecovers ==
    (networkMonitor.initialize = "failed") ~> (networkParameters # NULL)


\* C27 - A call without a primary candidate does not touch the latch: when
\* executeWithFallback goes on from the availability check with a candidate
\* map that has no tronweb entry, the availability flag stays as
\* checkNodeAvailability left it, no primary failure is recorded and the
\* gateway candidate, if supplied, is the one invoked.
NoPrimaryLeavesFlag ==
    [][\A p \in Procs :
          (/\ calls[p].pc = "checked"
           /\ calls'[p].pc # "checked"
           /\ "tronweb" \notin calls[p].operation)
          => /\ nodeAvailable' = nodeAvailable
             /\ calls'[p].sources = <<>>
             /\ "tronweb" \notin Range(calls'[p].invoked)
             /\ "trongrid" \in calls[p].operation => calls'[p].pc = "trongrid"]_vars


\* C30 - One heuristic, whichever path: for an input without a recipient
\* the server's getFallbackEnergyEstimate returns the value that
\* EnergyEstimator.getFallbackEnergyEstimate returns for the same function
\* name, parameter list and contract address.
OneHeuristic ==
    (hInput.toAddress = NULL)
    => \A i \in DOMAIN hLog :
           hLog[i] = EstimatorFallbackEnergyEstimate(hInput.functionName,
                         hInput.parameters, hInput.contractAddress)


(***************************************************************************)
(* SpecSend: send_trx calls with a privateKey argument, handled            *)
(* concurrently in all request slots.                                      *)
(***************************************************************************)
CallerKeys == {CALLER_KEY, OTHER_CALLER_KEY}

NextSend ==
    \/ \E p \in Procs, key \in CallerKeys :
           ToolCall(p, "sendTrx", Candidates, [NoArgs EXCEPT !.privateKey = key])
    \/ \E p \in Procs, outcome \in {"fast", "slow", "throw"} : checkNodeAvailability(p, outcome)
    \/ \E p \in Procs : executeWithFallback(p)
    \/ \E p \in Procs : TronwebReturn(p)
    \/ \E p \in Procs : trxSign(p)
    \/ \E p \in Procs : TrongridReturn(p)
    \/ \E p \in Procs : TronscanReturn(p)
    \/ \E p \in Procs : Respond(p)

SpecSend == Init /\ [][NextSend]_vars

\* C25 - Signing key isolation under concurrency: every transaction a
\* send_trx call with a privateKey argument puts on the network is signed
\* with the key of that call, whatever other send_trx call is in flight.
SigningKeyIsolation ==
    \A p \in Procs :
        LET c == calls[p] IN
        (c.tool = "sendTrx" /\ c.args.privateKey # NULL)
        => c.signers \subseteq {c.args.privateKey}

\* C26 - At most one broadcast per send_trx: the candidates of one send_trx
\* call put at most one transaction on the network.
AtMostOneBroadcast ==
    \A p \in Procs : calls[p].tool = "sendTrx" => calls[p].broadcasts <= 1


(***************************************************************************)
(* SpecCache: TronScanAPI.getCachedOrFetch on one cache key, called        *)
(* concurrently in all request slots, between its suspension points:       *)
(* fs.stat, fs.readFile, fetchFunction(), fs.writeFile and the readFile    *)
(* of the catch.  Fetched data is numbered; the file found at start holds  *)
(* data 0.                                                                 *)
(***************************************************************************)
InitialCacheFiles == {NoCacheFile, CacheFile(TRUE, TRUE, 0), CacheFile(TRUE, FALSE, 0)}

InitCacheSpec ==
    /\ InitServer(ENV_KEY)
    /\ hInput = NoInput
    /\ hLog = <<>>
    /\ tronScanAPI = TronScanAPI(<<>>)
    /\ keyRequests = <<>>
    /\ \E file \in InitialCacheFiles : InitCache(file)

CacheFrame ==
    UNCHANGED <<nodeAvailable, energyEstimator, networkParameters, calls, primaryFailed,
                hInput, hLog, signing, explorerKeys, probes, networkMonitor>>

\* getCachedOrFetch is called: up to `await fs.stat(cacheFile)`
getCachedOrFetch(p) ==
    /\ lookups[p].pc = "idle"
    /\ lookups' = [lookups EXCEPT ![p].pc = "stat"]
    /\ UNCHANGED <<cacheFile, fetchCount>>
    /\ CacheFrame

\* fs.stat settles: age < ttl goes on to readFile; a missing file (stat
\* throws) or an older one goes on to call fetchFunction()
statSettles(p) ==
    /\ lookups[p].pc = "stat"
    /\ lookups' = [lookups EXCEPT ![p] =
          IF cacheFile.exists /\ cacheFile.fresh
          THEN [@ EXCEPT !.pc = "read", !.sawEntry = TRUE, !.sawFresh = TRUE]
          ELSE [@ EXCEPT !.pc = "fetch", !.sawEntry = cacheFile.exists,
                         !.fetched = @ + 1]]
    /\ UNCHANGED <<cacheFile, fetchCount>>
    /\ CacheFrame

\* the readFile of the fresh entry settles; a rejection is swallowed and
\* fetchFunction() is called
readSettles(p) ==
    /\ lookups[p].pc = "read"
    /\ lookups' = [lookups EXCEPT ![p] =
          IF cacheFile.exists
          THEN [@ EXCEPT !.pc = "done", !.status = "ok", !.result = cacheFile.data]
          ELSE [@ EXCEPT !.pc = "fetch", !.fetched = @ + 1]]
    /\ UNCHANGED <<cacheFile, fetchCount>>
    /\ CacheFrame

\* fetchFunction() settles: it returns data, up to `await fs.writeFile`, or
\* it throws, up to the readFile of the catch
fetchSettles(p, ok) ==
    /\ lookups[p].pc = "fetch"
    /\ ok => fetchCount < MaxFetches
    /\ fetchCount' = IF ok THEN fetchCount + 1 ELSE fetchCount
    /\ lookups' = [lookups EXCEPT ![p] =
          IF ok
          THEN [@ EXCEPT !.pc = "write", !.fetchOk = TRUE, !.data = fetchCount + 1]
          ELSE [@ EXCEPT !.pc = "stale", !.error = "fetch"]]
    /\ UNCHANGED cacheFile
    /\ CacheFrame

\* fs.writeFile settles: the data is stored and returned, or the rejection
\* lands in the same catch as a failed fetch
writeSettles(p, ok) ==
    /\ lookups[p].pc = "write"
    /\ cacheFile' = IF ok THEN CacheFile(TRUE, TRUE, lookups[p].data) ELSE cacheFile
    /\ lookups' = [lookups EXCEPT ![p] =
          IF ok
          THEN [@ EXCEPT !.pc = "done", !.stored = TRUE, !.status = "ok",
                         !.result = lookups[p].data]
          ELSE [@ EXCEPT !.pc = "stale", !.error = "write"]]
    /\ UNCHANGED fetchCount
    /\ CacheFrame

\* the readFile of the catch settles: the entry is returned whatever its
\* age, or the caught error is rethrown
staleSettles(p) ==
    /\ lookups[p].pc = "stale"
    /\ lookups' = [lookups EXCEPT ![p] =
          IF cacheFile.exists
          THEN [@ EXCEPT !.pc = "done", !.foundStale = TRUE, !.status = "ok",
                         !.result = cacheFile.data]
          ELSE [@ EXCEPT !.pc = "done", !.status = "error"]]
    /\ UNCHANGED <<cacheFile, fetchCount>>
    /\ CacheFrame

\* the caller has the result
lookupReturns(p) ==
    /\ lookups[p].pc = "done"
    /\ lookups' = [lookups EXCEPT ![p] = IdleLookup]
    /\ UNCHANGED <<cacheFile, fetchCount>>
    /\ CacheFrame

\* time passes: the entry's age reaches ttl
ttlElapses ==
    /\ cacheFile.exists /\ cacheFile.fresh
    /\ cacheFile' = [cacheFile EXCEPT !.fresh = FALSE]
    /\ UNCHANGED <<lookups, fetchCount>>
    /\ CacheFrame

NextCache ==
    \/ \E p \in Procs : getCachedOrFetch(p)
    \/ \E p \in Procs : statSettles(p)
    \/ \E p \in Procs : readSettles(p)
    \/ \E p \in Procs, ok \in BOOLEAN : fetchSettles(p, ok)
    \/ \E p \in Procs, ok \in BOOLEAN : writeSettles(p, ok)
    \/ \E p \in Procs : staleSettles(p)
    \/ \E p \in Procs : lookupReturns(p)
    \/ ttlElapses

SpecCache == InitCacheSpec /\ [][NextCache]_vars

\* C28 - Explorer cache with stale fallback: a getCachedOrFetch call that
\* found an entry younger than ttl never calls the fetch function; one that
\* found none, or an older one, calls it exactly once and, when the fetch
\* succeeds, stores and returns the fetched data; when the fetch fails it
\* returns the entry it finds and leaves the file unchanged, and it fails,
\* with the fetch error, only when there is no entry.
CacheWithStaleFallback ==
    /\ [](\A p \in Procs :
            LET l == lookups[p] IN
            l.pc = "done" =>
               /\ l.fetched = IF l.sawFresh THEN 0 ELSE 1
               /\ l.fetchOk => (l.stored /\ l.status = "ok" /\ l.result = l.data)
               /\ l.status = "error" => (~l.fetchOk /\ l.error = "fetch" /\ ~l.foundStale))
    /\ [][\A p \in Procs :
            (lookups[p].pc = "stale" /\ lookups'[p].pc = "done")
            => /\ cacheFile' = cacheFile
               /\ cacheFile.exists => (/\ lookups'[p].status = "ok"
                                        /\ lookups'[p].result = cacheFile.data)]_vars

=============================================================================
